---- MODULE Spec2Model ----
(***************************************************************************)
(* The Firestore source connector (source_firestore/source.py): the value  *)
(* resolver, the schema inference, the query builder, the response parser  *)
(* and the incremental cursor of a collection stream.                      *)
(*                                                                         *)
(* Python values are records whose single field names the Python type:     *)
(*   [none |-> TRUE]  None          [str |-> text]   str                   *)
(*   [int |-> n]      int           [float |-> n]    float                 *)
(*   [bool |-> b]     bool          [dt |-> t]       datetime (UTC instant) *)
(*   [list |-> seq]   list          [dict |-> f]     dict built by the code *)
(* A JSON object of the wire format is the function from its keys to its   *)
(* members, so {"stringValue": "x"} is [stringValue |-> [str |-> ...]].    *)
(* The text of a string is [iso |-> t, z |-> suffix] for an ISO-8601       *)
(* instant t written with the UTC suffix "Z" or "+00:00", [dec |-> n] for  *)
(* decimal digits and [txt |-> s] for any other text.                      *)
(***************************************************************************)
EXTENDS Integers, Sequences, FiniteSets, TLC

\* ------------------------------------------------------------------ bounds
MaxTime == 2
MaxDocs == 2
MaxPageLen == 2
MaxDepth == 2
MaxArrayLen == 2

\* ----------------------------------------------------------- Python values
PyNone == [none |-> TRUE]
PyStr(text) == [str |-> text]
PyInt(n) == [int |-> n]
PyFloat(n) == [float |-> n]
PyBool(b) == [bool |-> b]
PyDatetime(t) == [dt |-> t]
PyList(s) == [list |-> s]
PyDict(f) == [dict |-> f]
Raise(kind) == [raise |-> kind]

IsoText(t, z) == [iso |-> t, z |-> z]
DecText(n) == [dec |-> n]
Txt(s) == [txt |-> s]
EmptyMap == [k \in {} |-> PyNone]

PyTags == {"none", "str", "int", "float", "bool", "dt", "list", "dict", "raise"}

IsNone(x) == "none" \in DOMAIN x
IsStr(x) == "str" \in DOMAIN x
IsBool(x) == "bool" \in DOMAIN x
\* bool is a subclass of int: isinstance(True, int) is True
IsInt(x) == "int" \in DOMAIN x \/ IsBool(x)
IsFloat(x) == "float" \in DOMAIN x
IsDatetime(x) == "dt" \in DOMAIN x
IsList(x) == "list" \in DOMAIN x
\* a wire-format JSON object that reaches the code unresolved is a dict too
IsDict(x) == "dict" \in DOMAIN x \/ DOMAIN x \cap PyTags = {}
IsRaise(x) == "raise" \in DOMAIN x
DictOf(x) == IF "dict" \in DOMAIN x THEN x.dict ELSE x

\* Python truthiness of the values the code tests with `if x`
Truthy(x) ==
    CASE IsNone(x) -> FALSE
      [] IsBool(x) -> x.bool
      [] IsStr(x) -> x.str # Txt("")
      [] "int" \in DOMAIN x -> x.int # 0
      [] IsList(x) -> x.list # <<>>
      [] IsDict(x) -> DOMAIN DictOf(x) # {}
      [] OTHER -> TRUE

\* str.replace("Z", "+00:00") on the texts of the model
ReplaceZ(text) ==
    IF "iso" \in DOMAIN text /\ text.z = "Z" THEN IsoText(text.iso, "+00:00") ELSE text

\* datetime.fromisoformat: accepts the "+00:00" suffix, not "Z"
fromisoformat(text) ==
    IF "iso" \in DOMAIN text /\ text.z = "+00:00"
    THEN PyDatetime(text.iso)
    ELSE Raise("ValueError")

\* datetime.isoformat of a UTC-aware datetime
isoformat(d) == PyStr(IsoText(d.dt, "+00:00"))

\* Helpers.parse_date: date.replace("Z", "+00:00") is str.replace only for a
\* str; datetime.replace takes no str arguments and None has no replace
parse_date(date) ==
    CASE IsStr(date) -> fromisoformat(ReplaceZ(date.str))
      [] IsNone(date) -> Raise("AttributeError")
      [] OTHER -> Raise("TypeError")

\* int(), float(), bool() on the payloads of the wire format
PyIntOf(x) ==
    CASE IsStr(x) /\ "dec" \in DOMAIN x.str -> PyInt(x.str.dec)
      [] "int" \in DOMAIN x -> x
      [] OTHER -> Raise("ValueError")
PyFloatOf(x) ==
    CASE IsFloat(x) -> x
      [] "int" \in DOMAIN x -> PyFloat(x.int)
      [] IsStr(x) /\ "dec" \in DOMAIN x.str -> PyFloat(x.str.dec)
      [] OTHER -> Raise("ValueError")
PyBoolOf(x) == PyBool(Truthy(x))

\* ------------------------------------------------------------ the resolver
RECURSIVE resolve_value(_)
resolve_value(v) ==
    CASE "arrayValue" \in DOMAIN v ->
            LET a == v.arrayValue
                xs == IF "values" \in DOMAIN a THEN a.values ELSE <<>>
            IN  PyList([i \in 1..Len(xs) |-> resolve_value(xs[i])])
      [] "mapValue" \in DOMAIN v ->
            LET m == v.mapValue
                fs == IF "fields" \in DOMAIN m THEN m.fields ELSE EmptyMap
            IN  PyDict([k \in DOMAIN fs |-> resolve_value(fs[k])])
      [] "integerValue" \in DOMAIN v -> PyIntOf(v.integerValue)
      [] "doubleValue" \in DOMAIN v -> PyFloatOf(v.doubleValue)
      [] "booleanValue" \in DOMAIN v -> PyBoolOf(v.booleanValue)
      [] "timestampValue" \in DOMAIN v -> parse_date(v.timestampValue)
      [] "stringValue" \in DOMAIN v -> v.stringValue
      [] "nullValue" \in DOMAIN v -> PyNone
      [] OTHER -> v

\* the isinstance chain, in the order of the source
RECURSIVE get_json_schema_type(_)
get_json_schema_type(value) ==
    IF IsStr(value) THEN [type |-> "string"]
    ELSE IF IsInt(value) THEN [type |-> "integer"]
    ELSE IF IsFloat(value) THEN [type |-> "number"]
    ELSE IF IsBool(value) THEN [type |-> "boolean"]
    ELSE IF IsList(value) THEN
        IF Len(value.list) = 0
        THEN [type |-> "array", items |-> [type |-> "null"]]
        ELSE [type |-> "array", items |-> get_json_schema_type(value.list[1])]
    ELSE IF IsDict(value) THEN
        [type |-> "object",
         properties |-> [k \in DOMAIN DictOf(value) |-> get_json_schema_type(DictOf(value)[k])]]
    ELSE PyNone

\* ------------------------------------------------- inputs of the model
Streams == {"A", "B"}
Times == 1..MaxTime
CursorName == "updated_at"
CursorStr == PyStr(Txt(CursorName))

\* the cursor_field argument the framework passes to read_records: the
\* configured cursor field as a list (possibly empty) or as a bare string
CursorFields == {PyList(<<>>), CursorStr, PyList(<<CursorStr>>)}

\* persisted start dates of the configuration (Collection.__init__ parses them)
StartDates == {PyNone} \cup {PyDatetime(t) : t \in Times}

\* runQuery response entries; a document's fields are the sequence of its
\* members <<key, tagged value>> in the order of the JSON object
DocEntry(id, fs) == [document |-> [name |-> PyStr([path |-> id]), fields |-> fs]]
StrDoc(t) == DocEntry(<<"s", t>>, << <<CursorName, [stringValue |-> PyStr(IsoText(t, "Z"))]>> >>)
TsDoc(t) == DocEntry(<<"t", t>>, << <<CursorName, [timestampValue |-> PyStr(IsoText(t, "Z"))]>> >>)
NameDoc == DocEntry(<<"n", 1>>, << <<"name", [stringValue |-> PyStr(Txt("alice"))]>> >>)
Progress == [readTime |-> PyStr(IsoText(1, "Z"))]

Entries == {StrDoc(t) : t \in Times} \cup {TsDoc(1), NameDoc, Progress}

\* a backend: the entries its query matches, in the order it returns them, and
\* the number of entries it puts in one response
SeqsUpTo(S, n) == UNION {[1..k -> S] : k \in 0..n}
Scripts == SeqsUpTo(Entries, MaxDocs)
PageSizes == 1..MaxPageLen

Min(a, b) == IF a < b THEN a ELSE b

\* the response to the k-th request of a drain
PageAt(sc, ps, k) ==
    IF (k - 1) * ps >= Len(sc) THEN <<>>
    ELSE SubSeq(sc, (k - 1) * ps + 1, Min(k * ps, Len(sc)))

\* ------------------------------------------------------- FirestoreStream
\* cursor_key property
cursor_key(cf) ==
    IF IsList(cf)
    THEN IF Len(cf.list) > 0 THEN cf.list[1] ELSE PyNone
    ELSE cf

KeyOf(ck) == ck.str.txt

HasDocument(entry) == "document" \in DOMAIN entry

\* the record parse_response builds for one entry: "name" first, then every
\* document field assigned over it
RecordOf(entry) ==
    LET doc == entry.document
        fs == doc.fields
        keys == {fs[i][1] : i \in 1..Len(fs)}
        At(k) == fs[CHOOSE i \in 1..Len(fs) : fs[i][1] = k][2]
    IN  [k \in {"name"} \cup keys |-> IF k \in keys THEN resolve_value(At(k)) ELSE doc.name]

\* the (key, schema) pairs parse_response appends for one entry
FieldDefsOf(entry) ==
    LET fs == entry.document.fields
    IN  [i \in 1..Len(fs) |-> <<fs[i][1], get_json_schema_type(resolve_value(fs[i][2]))>>]

RECURSIVE ParsedRecords(_)
ParsedRecords(data) ==
    IF data = <<>> THEN <<>>
    ELSE IF HasDocument(Head(data))
         THEN <<RecordOf(Head(data))>> \o ParsedRecords(Tail(data))
         ELSE ParsedRecords(Tail(data))

RECURSIVE ParsedFieldDefs(_)
ParsedFieldDefs(data) ==
    IF data = <<>> THEN <<>>
    ELSE IF HasDocument(Head(data))
         THEN FieldDefsOf(Head(data)) \o ParsedFieldDefs(Tail(data))
         ELSE ParsedFieldDefs(Tail(data))

\* parse_response: the records it returns and the list self.fields after it
parse_response(flds, data) ==
    [records |-> ParsedRecords(data), fields |-> flds \o ParsedFieldDefs(data)]

\* next_page_token, given the documents its own parse_response call returned
next_page_token(cf, documents) ==
    IF Len(documents) = 0 THEN PyNone
    ELSE IF IsNone(cursor_key(cf)) THEN PyNone
    ELSE LET last == documents[Len(documents)]
         IN  IF KeyOf(cursor_key(cf)) \in DOMAIN last
             THEN [timestampValue |-> last[KeyOf(cursor_key(cf))]]
             ELSE Raise("KeyError")

\* request_body_json: the structuredQuery of the body
request_body_json(collection_name, cf, stream_state, token) ==
    LET ck == cursor_key(cf)
        timestamp_state == IF Truthy(ck)
                           THEN IF ck \in DOMAIN stream_state THEN stream_state[ck] ELSE PyNone
                           ELSE PyNone
        timestamp_value == IF Truthy(timestamp_state)
                           THEN isoformat(parse_date(timestamp_state))
                           ELSE PyNone
        query == [from |-> <<[collectionId |-> collection_name, allDescendants |-> TRUE]>>,
                  where |-> IF Truthy(timestamp_value)
                            THEN [fieldFilter |->
                                    [field |-> [fieldPath |-> ck],
                                     op |-> "GREATER_THAN",
                                     value |-> [timestampValue |-> timestamp_value]]]
                            ELSE PyNone,
                  orderBy |-> <<[field |-> [fieldPath |-> ck], direction |-> "ASCENDING"]>>,
                  startAt |-> IF Truthy(token)
                              THEN [values |-> <<token>>, before |-> FALSE]
                              ELSE PyNone]
        kept == IF IsNone(ck) \/ IsNone(timestamp_value)
                THEN DOMAIN query \ {"where", "orderBy"}
                ELSE DOMAIN query
    IN  [structuredQuery |-> [k \in kept |-> query[k]]]

\* get_json_schema: the declared properties
get_json_schema(flds, cf) ==
    LET keys == {flds[i][1] : i \in 1..Len(flds)}
        ck == cursor_key(cf)
        ckeys == IF Truthy(ck) THEN {KeyOf(ck)} ELSE {}
        Last(k) == CHOOSE i \in 1..Len(flds) :
                      flds[i][1] = k /\ \A j \in (i+1)..Len(flds) : flds[j][1] # k
    IN  [type |-> "object",
         required |-> <<"name">>,
         properties |-> [k \in {"name"} \cup keys \cup ckeys |->
                            IF k \in ckeys THEN [type |-> <<"null", "string">>]
                            ELSE IF k \in keys THEN flds[Last(k)][2]
                            ELSE [type |-> "string"]],
         additionalProperties |-> FALSE]

\* -------------------------------------------- IncrementalFirestoreStream
\* state getter
state_get(cf, cv) ==
    IF Truthy(cv) THEN [k \in {cursor_key(cf)} |-> isoformat(cv)] ELSE EmptyMap

\* the state setter with value.get(cursor_key) in place of
\* value.get(cursor_key, start_date)
state_set_without_default(cf, sd, value) ==
    LET ck == cursor_key(cf)
        new_cursor_value == IF ck \in DOMAIN value THEN value[ck] ELSE PyNone
    IN  IF IsStr(new_cursor_value) THEN parse_date(new_cursor_value) ELSE new_cursor_value

\* state setter: the cursor value it assigns (a Raise leaves it unassigned)
state_set(cf, sd, value) ==
    LET ck == cursor_key(cf)
        new_cursor_value == IF ck \in DOMAIN value THEN value[ck] ELSE sd
    IN  IF IsStr(new_cursor_value) THEN parse_date(new_cursor_value) ELSE new_cursor_value

\* min in place of max
PyMin(a, b) == IF b.dt < a.dt THEN b ELSE a

\* max(record_date, self._cursor_value)
PyMax(a, b) == IF b.dt > a.dt THEN b ELSE a

\* the statements after `yield record` with the cursor set to the record's
\* date whatever value is held
update_cursor_to_latest(cf, cv, record) ==
    LET ck == cursor_key(cf)
    IN  IF ~Truthy(ck) THEN cv
        ELSE IF KeyOf(ck) \notin DOMAIN record THEN Raise("KeyError")
        ELSE parse_date(record[KeyOf(ck)])

\* the statements of read_records after `yield record`: the cursor value they
\* assign, or the exception they raise
update_cursor(cf, cv, record) ==
    LET ck == cursor_key(cf)
    IN  IF ~Truthy(ck) THEN cv
        ELSE IF KeyOf(ck) \notin DOMAIN record THEN Raise("KeyError")
        ELSE LET record_date == parse_date(record[KeyOf(ck)])
             IN  IF IsRaise(record_date) THEN record_date
                 ELSE IF Truthy(cv) THEN PyMax(record_date, cv) ELSE record_date

\* ------------------------------------------------------------ the state
VARIABLES
    cursor_value,    \* _cursor_value of each stream instance
    cursor_field,    \* cursor_field of each instance (the class default [] until assigned)
    start_date,      \* start_date of each instance
    fields,          \* FirestoreStream.fields, the list object created in the class body
    phase,           \* position of the read_records generator in progress
    active,          \* the instance whose read_records is in progress
    script,          \* the entries the backend holds for the drain in progress
    page_size,       \* the number of entries the backend puts in one response
    fetches,         \* requests sent by the drain in progress
    response,        \* the response being consumed
    pending,         \* records of the response not yet yielded
    emitted,         \* records yielded so far by the drain
    page_token,      \* next_page_token of the page loop
    initial_cursor,  \* _cursor_value of the active instance when the drain began
    last_set,        \* the latest state assignment since construction or the read
    was_read,        \* whether read_records has been called in this run
    pure_in,         \* input of the pure function under check
    pure_out         \* its result

vars == <<cursor_value, cursor_field, start_date, fields, phase, active, script, page_size,
          fetches, response, pending, emitted, page_token, initial_cursor, last_set,
          was_read, pure_in, pure_out>>

drain_vars == <<phase, active, script, page_size, fetches, response, pending, emitted,
                page_token, initial_cursor>>

NoCall == [none |-> TRUE]
pure_vars == <<pure_in, pure_out>>

\* self.fields: no instance ever assigns the attribute, so every instance
\* reads (and appends to) the list of the class
fields_of(s) == fields

NoDrain ==
    /\ phase = "idle"
    /\ active = "none"
    /\ script = <<>>
    /\ page_size = 1
    /\ fetches = 0
    /\ response = <<>>
    /\ pending = <<>>
    /\ emitted = <<>>
    /\ page_token = PyNone
    /\ initial_cursor = PyNone

\* SourceFirestore.streams: one Collection per collection id, all built from
\* the same config; FirestoreStream.__init__ sets _cursor_value = None
Init ==
    /\ cursor_value = [s \in Streams |-> PyNone]
    /\ cursor_field = [s \in Streams |-> PyList(<<>>)]
    /\ \E d \in StartDates : start_date = [s \in Streams |-> d]
    /\ fields = <<>>
    /\ NoDrain
    /\ was_read = FALSE
    /\ last_set = NoCall
    /\ pure_in = PyNone
    /\ pure_out = PyNone

\* persisted states handed to the state setter
StateInputs(s) ==
    {EmptyMap, state_get(cursor_field[s], cursor_value[s])}
    \cup {[k \in {CursorStr} |-> PyStr(IsoText(t, z))] : t \in Times, z \in {"Z", "+00:00"}}
    \cup {[k \in {PyStr(Txt("created_at"))} |-> PyStr(IsoText(1, "Z"))]}

\* stream.state = value, which the framework does between drains
SetState(s, value) ==
    /\ phase = "idle"
    /\ LET r == state_set(cursor_field[s], start_date[s], value)
       IN  cursor_value' = IF IsRaise(r) THEN cursor_value
                           ELSE [cursor_value EXCEPT ![s] = r]
    /\ last_set' = [stream |-> s, value |-> value, before |-> cursor_value[s]]
    /\ UNCHANGED <<cursor_field, start_date, fields, drain_vars, was_read, pure_vars>>

\* read_records up to the first request: self.cursor_field = cursor_field
ReadRecords(s, cf, sc, ps) ==
    /\ phase = "idle"
    /\ cursor_field' = [cursor_field EXCEPT ![s] = cf]
    /\ phase' = "fetch"
    /\ active' = s
    /\ script' = sc
    /\ page_size' = ps
    /\ initial_cursor' = cursor_value[s]
    /\ was_read' = TRUE
    /\ last_set' = NoCall
    /\ UNCHANGED <<cursor_value, start_date, fields, fetches, response, pending,
                   emitted, page_token, pure_vars>>

\* one request of the page loop and parse_response on its response
Fetch ==
    /\ phase = "fetch"
    /\ LET data == PageAt(script, page_size, fetches + 1)
           parsed == parse_response(fields_of(active), data)
       IN  /\ response' = data
           /\ pending' = parsed.records
           /\ fields' = parsed.fields
    /\ fetches' = fetches + 1
    /\ phase' = "emit"
    /\ UNCHANGED <<cursor_value, cursor_field, start_date, active, script, page_size, emitted,
                   page_token, initial_cursor, last_set, was_read, pure_vars>>

\* `yield record` and the statements after it
Emit ==
    /\ phase = "emit"
    /\ pending # <<>>
    /\ emitted' = Append(emitted, Head(pending))
    /\ pending' = Tail(pending)
    /\ LET r == update_cursor(cursor_field[active], cursor_value[active], Head(pending))
       IN  IF IsRaise(r)
           THEN phase' = "crashed" /\ UNCHANGED cursor_value
           ELSE phase' = "emit" /\ cursor_value' = [cursor_value EXCEPT ![active] = r]
    /\ UNCHANGED <<cursor_field, start_date, fields, active, script, page_size, fetches, response,
                   page_token, initial_cursor, last_set, was_read, pure_vars>>

\* the page is exhausted: next_page_token(response), which parses the
\* response a second time, and the loop test on its result
NextPage ==
    /\ phase = "emit"
    /\ pending = <<>>
    /\ LET parsed == parse_response(fields_of(active), response)
           token == next_page_token(cursor_field[active], parsed.records)
       IN  /\ fields' = parsed.fields
           /\ page_token' = IF IsRaise(token) THEN page_token ELSE token
           /\ phase' = IF IsRaise(token) THEN "crashed"
                       ELSE IF Truthy(token) THEN "fetch" ELSE "done"
    /\ UNCHANGED <<cursor_value, cursor_field, start_date, active, script, page_size, fetches,
                   response, pending, emitted, initial_cursor, last_set, was_read, pure_vars>>

\* the consumer drops the finished (or failed) generator
Close ==
    /\ phase \in {"done", "crashed"}
    /\ phase' = "idle"
    /\ active' = "none"
    /\ script' = <<>>
    /\ page_size' = 1
    /\ fetches' = 0
    /\ response' = <<>>
    /\ pending' = <<>>
    /\ emitted' = <<>>
    /\ page_token' = PyNone
    /\ initial_cursor' = PyNone
    /\ UNCHANGED <<cursor_value, cursor_field, start_date, fields, last_set, was_read, pure_vars>>

\* the framework restores a persisted state into one of the streams
Restore ==
    /\ phase = "idle"
    /\ \E s \in Streams : \E value \in StateInputs(s) : SetState(s, value)

\* the framework starts reading one of the streams against some backend; a
\* behaviour follows one read_records call, with the state restores before
\* and after it
Drain ==
    /\ phase = "idle"
    /\ ~was_read
    /\ \E s \in Streams, cf \in CursorFields, sc \in Scripts, ps \in PageSizes :
          ReadRecords(s, cf, sc, ps)

Next ==
    \/ Restore
    \/ Drain
    \/ Fetch
    \/ Emit
    \/ NextPage
    \/ Close

Spec == Init /\ [][Next]_vars

\* ------------------------------------------- the pure functions, applied
\* the construction of the streams, with no start date configured
Constructed ==
    /\ cursor_value = [s \in Streams |-> PyNone]
    /\ cursor_field = [s \in Streams |-> PyList(<<>>)]
    /\ start_date = [s \in Streams |-> PyNone]
    /\ fields = <<>>
    /\ NoDrain
    /\ was_read = FALSE
    /\ last_set = NoCall

stream_vars == <<cursor_value, cursor_field, start_date, fields, drain_vars, last_set, was_read>>

\* tagged values of the wire format, nested to a depth
Leaves ==
    {[integerValue |-> PyStr(DecText(7))],
     [doubleValue |-> PyFloat(15)],
     [booleanValue |-> PyBool(TRUE)],
     [booleanValue |-> PyBool(FALSE)],
     [timestampValue |-> PyStr(IsoText(1, "Z"))],
     [stringValue |-> PyStr(Txt("x"))],
     [nullValue |-> PyNone],
     [referenceValue |-> PyStr(Txt("projects/p/databases/d/documents/c/x"))]}

MapKeys == {"a", "b"}

RECURSIVE Tagged(_)
Tagged(depth) ==
    IF depth = 0 THEN Leaves
    ELSE LET inner == Tagged(depth - 1)
         IN  inner
             \cup {[arrayValue |-> EmptyMap], [mapValue |-> EmptyMap]}
             \cup {[arrayValue |-> [values |-> xs]] : xs \in SeqsUpTo(inner, MaxArrayLen)}
             \cup {[mapValue |-> [fields |-> fs]] :
                      fs \in UNION {[ks -> inner] : ks \in SUBSET MapKeys}}

InitResolve ==
    /\ Constructed
    /\ pure_in \in Tagged(MaxDepth)
    /\ pure_out = PyNone

\* parse_response's two calls on one field value
Resolve ==
    /\ pure_out = PyNone
    /\ LET native == resolve_value(pure_in)
       IN  pure_out' = [native |-> native, schema |-> get_json_schema_type(native)]
    /\ UNCHANGED <<pure_in, stream_vars>>

SpecResolve == InitResolve /\ [][Resolve]_vars

\* arguments of the query builder
CollectionNames == {"orders", "users"}
StreamStates ==
    {EmptyMap, [k \in {PyStr(Txt("created_at"))} |-> PyStr(IsoText(1, "Z"))]}
    \cup {[k \in {CursorStr} |-> PyStr(IsoText(t, z))] : t \in Times, z \in {"Z", "+00:00"}}
PageTokens == {PyNone} \cup {[timestampValue |-> PyStr(IsoText(t, "Z"))] : t \in Times}

InitQuery ==
    /\ Constructed
    /\ pure_in \in [collection_name : CollectionNames, cursor_field : CursorFields,
                     stream_state : StreamStates, next_page_token : PageTokens]
    /\ pure_out = PyNone

BuildQuery ==
    /\ pure_out = PyNone
    /\ pure_out' = request_body_json(pure_in.collection_name, pure_in.cursor_field,
                                     pure_in.stream_state, pure_in.next_page_token)
    /\ UNCHANGED <<pure_in, stream_vars>>

SpecQuery == InitQuery /\ [][BuildQuery]_vars

\* ------------------------------------------------ vocabulary of the claims
Held(cv) == cv # PyNone
Configured(s) == cursor_key(cursor_field[s]) # PyNone

\* the instant written in the cursor field of a yielded record
RecordTime(record) == record[CursorName].str.iso

MaxOf(S) == CHOOSE m \in S : \A x \in S : x <= m

\* the instants a finished drain has seen: those of its records and the one
\* the cursor held before it
SeenTimes ==
    {RecordTime(emitted[i]) : i \in 1..Len(emitted)}
    \cup (IF Held(initial_cursor) THEN {initial_cursor.dt} ELSE {})

\* the responses of the backend of the drain in progress that hold entries
NumPages == (Len(script) + page_size - 1) \div page_size
PageHasDocument(k) ==
    \E i \in 1..Len(PageAt(script, page_size, k)) : HasDocument(PageAt(script, page_size, k)[i])

\* the entries the drain in progress has been handed so far
Fetched == SubSeq(script, 1, Min(fetches * page_size, Len(script)))
FetchedDocuments == SelectSeq(Fetched, HasDocument)

NonDecreasing(s) ==
    Held(cursor_value[s]) =>
        /\ Held(cursor_value'[s])
        /\ cursor_value'[s].dt >= cursor_value[s].dt

C2_CursorNeverDecreases == [][\A s \in Streams : NonDecreasing(s)]_vars

\* C2 as amended: every step that takes the cursor of a stream from a held
\* value to a smaller one or to unset is a state assignment; the record
\* emissions of read_records never do.
C2_OnlySetStateDecreases ==
    [][(\A s \in Streams : NonDecreasing(s)) \/ Restore]_vars

\* a record older than the cursor has been emitted and the cursor kept
C2_Witness ==
    /\ phase = "emit"
    /\ Configured(active)
    /\ Len(emitted) >= 1
    /\ Held(cursor_value[active])
    /\ RecordTime(emitted[Len(emitted)]) < cursor_value[active].dt

\* C3: against a backend that answers N responses holding documents and then
\* an empty one, a finished drain has emitted the records of all N responses
\* in order and has sent N + 1 requests, with or without a cursor field.
C3_DrainFetchesAllPages ==
    (phase = "done" /\ \A k \in 1..NumPages : PageHasDocument(k)) =>
        /\ emitted = ParsedRecords(script)
        /\ fetches = NumPages + 1

\* C4: the page token is absent for the first request, and after a response
\* it is present exactly when the response held at least one document, with
\* or without a cursor field.
C4_TokenIffDocuments ==
    /\ (phase = "fetch" /\ fetches = 0) => page_token = PyNone
    /\ ((phase = "fetch" /\ fetches > 0) \/ phase = "done") =>
          (Held(page_token) <=> ParsedRecords(response) # <<>>)

\* C5: parsing a response in one stream leaves the field schema entries, the
\* declared schema and the cursor value of every other stream unchanged.
C5_StreamsShareNothing ==
    [][(Fetch \/ NextPage) =>
          \A s \in Streams \ {active} :
              /\ fields_of(s)' = fields_of(s)
              /\ get_json_schema(fields_of(s), cursor_field[s])'
                    = get_json_schema(fields_of(s), cursor_field[s])
              /\ cursor_value'[s] = cursor_value[s]]_vars

\* C7: assigning the exported state back leaves the cursor value unchanged.
C7_RoundTripKeepsCursor ==
    (/\ last_set # NoCall
     /\ last_set.value = state_get(cursor_field[last_set.stream], last_set.before)) =>
        cursor_value[last_set.stream] = last_set.before

\* what the state getter is claimed to return
GetStateAsClaimed(s) ==
    LET exported == state_get(cursor_field[s], cursor_value[s])
    IN  IF Held(cursor_value[s])
        THEN /\ DOMAIN exported = {cursor_key(cursor_field[s])}
             /\ exported[cursor_key(cursor_field[s])]
                   = PyStr(IsoText(cursor_value[s].dt, "+00:00"))
        ELSE DOMAIN exported = {}

\* the cursor value a state assignment is claimed to leave: the persisted
\* value when the state has the cursor key, else the start date when one is
\* configured, else `otherwise`
SetStateAsClaimed(otherwise) ==
    LET s == last_set.stream
        ck == cursor_key(cursor_field[s])
    IN  IF ck \in DOMAIN last_set.value
        THEN cursor_value[s] = PyDatetime(last_set.value[ck].str.iso)
        ELSE IF Held(start_date[s])
        THEN cursor_value[s] = start_date[s]
        ELSE cursor_value[s] = otherwise

\* C8 as claimed: without the key and without a start date the assignment
\* leaves the cursor value as it was.
C8_SetStateKeepsHeldValue ==
    /\ \A s \in Streams : GetStateAsClaimed(s)
    /\ last_set # NoCall => SetStateAsClaimed(last_set.before)

\* C8 as amended: without the key and without a start date the assignment
\* unsets the cursor value, discarding a value held before.
C8_SetStateUnsetsWithoutKey ==
    /\ \A s \in Streams : GetStateAsClaimed(s)
    /\ last_set # NoCall => SetStateAsClaimed(PyNone)

\* a held value was discarded by an assignment without key and start date
C8_Witness ==
    /\ last_set # NoCall
    /\ Held(last_set.before)
    /\ Configured(last_set.stream)
    /\ cursor_key(cursor_field[last_set.stream]) \notin DOMAIN last_set.value
    /\ start_date[last_set.stream] = PyNone

\* C10: the records parsed so far are one per fetched entry with a document,
\* in order, each with the document's path under "name" and, when a cursor
\* field is configured, with that field.
C10_OneRecordPerDocument ==
    (phase \in {"emit", "done", "crashed"}) =>
        LET records == emitted \o pending
        IN  /\ Len(records) = Len(FetchedDocuments)
            /\ \A i \in 1..Len(records) :
                  /\ records[i]["name"] = FetchedDocuments[i].document.name
                  /\ Configured(active) => CursorName \in DOMAIN records[i]

\* the schema fragment the documentation gives for a tagged value; it gives
\* none for a timestamp, a null or an unrecognized tag
RECURSIVE SchemaAsDocumented(_, _)
SchemaAsDocumented(v, schema) ==
    CASE "stringValue" \in DOMAIN v -> schema = [type |-> "string"]
      [] "integerValue" \in DOMAIN v -> schema = [type |-> "integer"]
      [] "doubleValue" \in DOMAIN v -> schema = [type |-> "number"]
      [] "booleanValue" \in DOMAIN v -> schema = [type |-> "boolean"]
      [] "arrayValue" \in DOMAIN v ->
            LET xs == IF "values" \in DOMAIN v.arrayValue THEN v.arrayValue.values ELSE <<>>
            IN  /\ DOMAIN schema = {"type", "items"}
                /\ schema.type = "array"
                /\ IF xs = <<>> THEN schema.items = [type |-> "null"]
                   ELSE SchemaAsDocumented(xs[1], schema.items)
      [] "mapValue" \in DOMAIN v ->
            LET fs == IF "fields" \in DOMAIN v.mapValue THEN v.mapValue.fields ELSE EmptyMap
            IN  /\ DOMAIN schema = {"type", "properties"}
                /\ schema.type = "object"
                /\ DOMAIN schema.properties = DOMAIN fs
                /\ \A k \in DOMAIN fs : SchemaAsDocumented(fs[k], schema.properties[k])
      [] OTHER -> TRUE

\* the native value the documentation gives for a tagged value
RECURSIVE NativeAsDocumented(_, _)
NativeAsDocumented(v, native) ==
    CASE "stringValue" \in DOMAIN v -> native = v.stringValue
      [] "integerValue" \in DOMAIN v -> native = PyInt(v.integerValue.str.dec)
      [] "doubleValue" \in DOMAIN v -> native = v.doubleValue
      [] "booleanValue" \in DOMAIN v -> native = v.booleanValue
      [] "timestampValue" \in DOMAIN v -> native = PyDatetime(v.timestampValue.str.iso)
      [] "nullValue" \in DOMAIN v -> native = PyNone
      [] "arrayValue" \in DOMAIN v ->
            LET xs == IF "values" \in DOMAIN v.arrayValue THEN v.arrayValue.values ELSE <<>>
            IN  /\ IsList(native)
                /\ Len(native.list) = Len(xs)
                /\ \A i \in 1..Len(xs) : NativeAsDocumented(xs[i], native.list[i])
      [] "mapValue" \in DOMAIN v ->
            LET fs == IF "fields" \in DOMAIN v.mapValue THEN v.mapValue.fields ELSE EmptyMap
            IN  /\ "dict" \in DOMAIN native
                /\ DOMAIN native.dict = DOMAIN fs
                /\ \A k \in DOMAIN fs : NativeAsDocumented(fs[k], native.dict[k])
      [] OTHER -> native = v

\* C9: resolve_value followed by get_json_schema_type gives, for every tagged
\* value, the documented native value and the documented schema fragment
\* (a boolean is reported as boolean); an unrecognized tag is passed through.
C9_ResolverSchemaAsDocumented ==
    pure_out # PyNone =>
        /\ NativeAsDocumented(pure_in, pure_out.native)
        /\ SchemaAsDocumented(pure_in, pure_out.schema)

\* C6: the query always has `from`; it has the GREATER_THAN filter with the
\* ISO-formatted value and the ascending orderBy exactly when a cursor key and
\* a cursor value are given; it has startAt exactly when a token is given.
C6_QueryShape ==
    pure_out # PyNone =>
        LET q == pure_out.structuredQuery
            ck == cursor_key(pure_in.cursor_field)
            filtered == ck # PyNone /\ ck \in DOMAIN pure_in.stream_state
        IN  /\ "from" \in DOMAIN q
            /\ q["from"] = <<[collectionId |-> pure_in.collection_name, allDescendants |-> TRUE]>>
            /\ ("where" \in DOMAIN q) <=> filtered
            /\ ("orderBy" \in DOMAIN q) <=> filtered
            /\ filtered =>
                  /\ q["where"] =
                        [fieldFilter |->
                            [field |-> [fieldPath |-> ck],
                             op |-> "GREATER_THAN",
                             value |-> [timestampValue |->
                                 PyStr(IsoText(pure_in.stream_state[ck].str.iso, "+00:00"))]]]
                  /\ q["orderBy"] = <<[field |-> [fieldPath |-> ck], direction |-> "ASCENDING"]>>
            /\ ("startAt" \in DOMAIN q) <=> pure_in.next_page_token # PyNone
            /\ pure_in.next_page_token # PyNone =>
                  q["startAt"] = [values |-> <<pure_in.next_page_token>>, before |-> FALSE]

====
